---- MODULE Spec2Model ----
(***************************************************************************)
(* Model of the EventLoop / Connection machinery of                        *)
(* src/interfaces/capnp/proxy.cpp: the loop thread, threads calling        *)
(* EventLoop::post, Connection teardown with its two cleanup lists, the    *)
(* asynchronous dispatcher thread, the EventLoop destructor, client proxy  *)
(* calls, and the worker threads of the Thread / ThreadMap proxies.        *)
(*                                                                         *)
(* One model step is one access to shared state, or one critical section   *)
(* of m_mutex in which the code cannot block.  A thread blocked in         *)
(* m_cv.wait is a member of cv_waiters; notify_all empties that set.       *)
(***************************************************************************)
EXTENDS Integers, Sequences, FiniteSets, TLC

\* ---------------------------------------------------------------- bounds
\* threads other than the loop thread that call EventLoop::post
NumPosters == 2

\* post calls per such thread
MaxPosts == 1

\* post calls made by the loop thread itself
MaxLoopPosts == 1

\* Connections created on the EventLoop
MaxConns == 2

\* cleanup actions registered per Connection and list
MaxCleanup == 1

\* client proxies (synchronous cleanup actions) per Connection in the
\* specifications that follow the proxies
MaxSync == 3

\* asynchronous cleanup actions per Connection in the specification that
\* follows their order
MaxAsync == 2

\* calls on a disconnected client proxy
MaxRefused == 1

\* worker threads created by ThreadMap::makeThread
MaxWorkers == 2

\* native threads that make remote calls
NumCallers == 1

\* pairs of AddClient and RemoveClient made through the free functions
MaxExt == 1

\* ------------------------------------------------------------- constants
\* the empty posted-function slot (m_post_fn == nullptr)
nullptr == 0

\* the value of a closed descriptor
FdClosed == -1

Posters == 1..NumPosters

\* thread identities
LoopT == NumPosters + 1

DispT == NumPosters + 2

NoThread == 0

Threads == Posters \cup {LoopT}

Conns == 1..MaxConns

NoConn == 0

CleanupIds == Conns \X (1..MaxCleanup)

\* the asynchronous cleanup actions: <<Connection, registration number>>
AsyncIds == Conns \X (1..MaxAsync)

\* identities of synchronous cleanup actions, one per client proxy
SyncIds == Conns \X (1..MaxSync)

Workers == 1..MaxWorkers

NoWorker == 0

\* read_bytes before the first read of the wake channel
NoRead == -1

\* native threads that make calls through client proxies
Callers == 1..NumCallers

\* the name "x" of a worker thread made for no caller
NoCaller == 0

\* the empty Waiter::m_fn
NoCall == <<NoCaller, "none">>

NoFn == <<0, 0>>

VARIABLES
  m_post_fn,            \* EventLoop::m_post_fn: nullptr or the thread whose fn is installed
  m_async_fns,          \* EventLoop::m_async_fns: the deferred queue
  m_num_clients,        \* EventLoop::m_num_clients
  m_wait_fd,            \* EventLoop::m_wait_fd
  m_post_fd,            \* EventLoop::m_post_fd
  m_mutex,              \* holder of EventLoop::m_mutex, NoThread when free
  m_async_thread,       \* TRUE iff m_async_thread.joinable()
  cv_waiters,           \* threads blocked in m_cv.wait and not yet notified
  pipe,                 \* bytes written to m_post_fd and not yet read from m_wait_fd
  lpc,                  \* position of the loop thread
  loop_fn,              \* the posted function the loop thread is executing
  ppc,                  \* position of each thread inside EventLoop::post
  calls,                \* number of post calls started, per thread
  returns,              \* number of post calls that returned normally, per thread
  ran,                  \* number of completed executions of each thread's posted function
  ran_on,               \* threads that have executed a posted function
  nested,               \* post calls the loop thread made from inside a posted function
  cstate,               \* lifecycle of each Connection
  cd_conn,              \* the Connection whose destructor the loop thread is in
  m_sync_cleanup_fns,   \* Connection::m_sync_cleanup_fns, per Connection
  m_async_cleanup_fns,  \* Connection::m_async_cleanup_fns, per Connection
  sync_regs,            \* number of addSyncCleanup calls, per Connection
  async_regs,           \* number of addAsyncCleanup calls, per Connection
  sync_runs,            \* number of executions of each synchronous cleanup action
  async_runs,           \* number of completed executions of each asynchronous action
  dpc,                  \* position of the dispatcher thread
  d_fn,                 \* the action the dispatcher took off the queue
  epc,                  \* position of the thread running ~EventLoop
  e_early,              \* TRUE iff ~EventLoop was entered with clients or queued actions
  zeroed,               \* TRUE once a removeClient has brought m_num_clients to zero
  loop_thread,          \* g_thread_context.loop_thread, per thread
  loop_assert,          \* TRUE once the assertion at the start of loop() has failed
  threads_made,         \* number of dispatcher threads created by startAsyncThread
  x_calls,              \* calls of AddClient made so far
  x_held,               \* calls of AddClient not yet followed by their RemoveClient
  xpc,                  \* position of the thread that calls AddClient and RemoveClient
  read_bytes,           \* the result of the last read of the wake channel in loop()
  eof,                  \* TRUE once the write end of the wake channel was shut down
  removed,              \* client proxies destroyed (removeSyncCleanup called)
  refused,              \* calls that failed at once on a disconnected client proxy
  wpc,                  \* position of each worker thread of makeThread
  ctx_waiter,           \* TRUE iff the worker's g_thread_context.waiter holds a Waiter
  m_fn,                 \* Waiter::m_fn of each worker's Waiter
  w_stack,              \* the calls each worker thread is executing, innermost first
  tstate,               \* lifecycle of each ProxyServer<Thread>
  request_threads,      \* ThreadContext::request_threads of each worker
  callback_threads,     \* ThreadContext::callback_threads of each worker
  thread_name,          \* the caller named in each worker's ThreadContext::thread_name
  apc,                  \* position of each calling thread in its chain of calls
  a_thread,             \* the worker each caller's request_threads entry names
  m_threads             \* Connection::m_threads: the workers whose Thread proxy was added

loopVars == <<lpc, loop_fn>>

fdVars == <<m_wait_fd, m_post_fd>>

lockVars == <<m_mutex, cv_waiters>>

clientVars == <<m_num_clients, zeroed>>

postVars == <<ppc, calls, returns, ran, ran_on, nested>>

connVars == <<cstate, cd_conn, m_sync_cleanup_fns, m_async_cleanup_fns, sync_regs,
              async_regs, sync_runs>>

dispVars == <<m_async_thread, async_runs, dpc, d_fn>>

dtorVars == <<epc, e_early>>

ioVars == <<read_bytes, eof>>

proxVars == <<removed, refused>>

thrVars == <<wpc, ctx_waiter, m_fn, w_stack, tstate, request_threads, callback_threads,
             thread_name, apc, a_thread, m_threads>>

entryVars == <<loop_thread, loop_assert>>

extVars == <<x_calls, x_held, xpc>>

auxVars == <<entryVars, ioVars, proxVars, thrVars, threads_made, extVars>>

\* the state of the EventLoop and its Connections
coreVars == <<m_post_fn, m_async_fns, loopVars, fdVars, lockVars, pipe, clientVars,
              postVars, connVars, dispVars, dtorVars>>

vars == <<coreVars, auxVars>>

\* ------------------------------------------------------------------ Init
\* The state after EventLoop::EventLoop (lines 126-133): the socketpair is
\* open, nothing is posted or queued, no client is counted.
Init ==
  /\ m_post_fn = nullptr
  /\ m_async_fns = <<>>
  /\ m_num_clients = 0
  /\ m_wait_fd = 0
  /\ m_post_fd = 1
  /\ m_mutex = NoThread
  /\ m_async_thread = FALSE
  /\ cv_waiters = {}
  /\ pipe = 0
  /\ lpc = "init"
  /\ loop_fn = nullptr
  /\ ppc = [t \in Threads |-> "idle"]
  /\ calls = [t \in Threads |-> 0]
  /\ returns = [t \in Threads |-> 0]
  /\ ran = [t \in Threads |-> 0]
  /\ ran_on = {}
  /\ nested = 0
  /\ cstate = [c \in Conns |-> "none"]
  /\ cd_conn = NoConn
  /\ m_sync_cleanup_fns = [c \in Conns |-> <<>>]
  /\ m_async_cleanup_fns = [c \in Conns |-> <<>>]
  /\ sync_regs = [c \in Conns |-> 0]
  /\ async_regs = [c \in Conns |-> 0]
  /\ sync_runs = [s \in SyncIds |-> 0]
  /\ async_runs = [a \in AsyncIds |-> 0]
  /\ dpc = "none"
  /\ d_fn = NoFn
  /\ epc = "none"
  /\ e_early = FALSE
  /\ zeroed = FALSE
  /\ loop_thread = [t \in Threads |-> FALSE]
  /\ loop_assert = FALSE
  /\ threads_made = 0
  /\ x_calls = 0
  /\ x_held = 0
  /\ xpc = "idle"
  /\ read_bytes = NoRead
  /\ eof = FALSE
  /\ removed = {}
  /\ refused = {}
  /\ wpc = [w \in Workers |-> "none"]
  /\ ctx_waiter = [w \in Workers |-> FALSE]
  /\ m_fn = [w \in Workers |-> NoCall]
  /\ w_stack = [w \in Workers |-> <<>>]
  /\ tstate = [w \in Workers |-> "none"]
  /\ request_threads = [w \in Workers |-> {}]
  /\ callback_threads = [w \in Workers |-> {}]
  /\ thread_name = [w \in Workers |-> NoCaller]
  /\ apc = [a \in Callers |-> "idle"]
  /\ a_thread = [a \in Callers |-> NoWorker]
  /\ m_threads = {}

\* The process is gone once an exception escaped the dispatcher thread
\* (std::terminate), a KJ_ASSERT of ~EventLoop failed or the assertion of
\* loop() failed; the EventLoop is gone once ~EventLoop returned.
Running ==
  /\ dpc # "crashed"
  /\ epc # "assert_failed"
  /\ epc # "destroyed"
  /\ ~loop_assert

\* The loop thread is at one of the positions pcs of loop() and not inside
\* a post() of its own.
LoopIn(pcs) == Running /\ lpc \in pcs /\ ppc[LoopT] = "idle"

\* EventLoop::m_thread_id: the thread that runs loop().
m_thread_id == LoopT

\* write(m_post_fd, &buffer, 1) on the open descriptor
WriteByte == pipe' = pipe + 1

\* the write end of the wake channel can be written to
WakeOpen == m_post_fd # FdClosed /\ ~eof

\* ------------------------------------------------------ EventLoop::loop
\* assert(!g_thread_context.loop_thread) (line 152)
EntryAllowed(flag) == ~flag

\* loop(): entry (lines 150-158)
LoopStart ==
  /\ LoopIn({"init"})
  /\ EntryAllowed(loop_thread[LoopT])
  /\ loop_thread' = [loop_thread EXCEPT ![LoopT] = TRUE]
  /\ lpc' = "read"
  /\ UNCHANGED <<m_post_fn, m_async_fns, loop_fn, fdVars, lockVars, pipe,
                 clientVars, postVars, connVars, dispVars, dtorVars,
                 loop_assert, ioVars, proxVars, thrVars, threads_made, extVars>>

\* the thread, other than the one running loop(), that may call loop() too
Entrant == NumPosters

\* loop() is called once more while the first call is in progress: by the
\* loop thread from an event handler or a posted function, or by another
\* thread; the assertion fails, or the thread sets its flag and goes on
\* into loop() (lines 150-156)
LoopEnterAgain(t) ==
  /\ Running
  /\ lpc \notin {"init", "done", "threw"}
  /\ IF t = LoopT THEN LoopIn({"read", "run_fn"}) ELSE ppc[t] = "idle"
  /\ IF EntryAllowed(loop_thread[t])
       THEN loop_thread' = [loop_thread EXCEPT ![t] = TRUE] /\ loop_assert' = FALSE
       ELSE loop_thread' = loop_thread /\ loop_assert' = TRUE
  /\ UNCHANGED <<coreVars, ioVars, proxVars, thrVars, threads_made, extVars>>

\* loop() going on whatever the read returned
ReadOkAlways(n) == TRUE

\* if (read_bytes == 1) (line 161)
ReadOk(n) == n = 1

\* what wait_stream->read(&buffer, 0, 1) can return now: one byte when one
\* has been written, nothing when the write end has been shut down and
\* every byte written has been read
ReadResults == IF pipe > 0 THEN {1} ELSE IF eof THEN {0} ELSE {}

\* wait_stream->read(&buffer, 0, 1) returns; one byte leads on to the
\* lock, anything else to throw std::logic_error, which leaves loop()
\* through KJ_DEFER (lines 154, 160-169)
LoopRead ==
  /\ LoopIn({"read"})
  /\ \E n \in ReadResults :
       /\ read_bytes' = n
       /\ pipe' = pipe - n
       /\ IF ReadOk(n)
            THEN lpc' = "lock" /\ loop_thread' = loop_thread
            ELSE lpc' = "threw" /\ loop_thread' = [loop_thread EXCEPT ![LoopT] = FALSE]
  /\ UNCHANGED <<m_post_fn, m_async_fns, loop_fn, fdVars, lockVars,
                 clientVars, postVars, connVars, dispVars, dtorVars,
                 eof, loop_assert, proxVars, thrVars, threads_made, extVars>>

\* the write end of the wake channel is shut down behind the EventLoop
PeerShutdown ==
  /\ Running
  /\ lpc \notin {"init", "done"}
  /\ ~eof
  /\ eof' = TRUE
  /\ UNCHANGED <<coreVars, entryVars, read_bytes, proxVars, thrVars, threads_made, extVars>>

\* WAIT_LOCK(m_mutex, lock) (line 162)
LoopLock ==
  /\ LoopIn({"lock"})
  /\ m_mutex = NoThread
  /\ m_mutex' = LoopT
  /\ lpc' = "locked"
  /\ UNCHANGED <<m_post_fn, m_async_fns, loop_fn, fdVars, cv_waiters, pipe,
                 clientVars, postVars, connVars, dispVars, dtorVars, auxVars>>

\* if (m_post_fn) Unlock(lock, *m_post_fn): the mutex is released and the
\* posted function starts; otherwise the lock goes out of scope
\* (lines 163-166)
LoopDispatch ==
  /\ LoopIn({"locked"})
  /\ m_mutex' = NoThread
  /\ IF m_post_fn # nullptr
       THEN lpc' = "run_fn" /\ loop_fn' = m_post_fn
       ELSE lpc' = "notify" /\ loop_fn' = loop_fn
  /\ UNCHANGED <<m_post_fn, m_async_fns, fdVars, cv_waiters, pipe,
                 clientVars, postVars, connVars, dispVars, dtorVars, auxVars>>

\* the posted function returns (line 164)
LoopRunFn ==
  /\ LoopIn({"run_fn"})
  /\ ran' = [ran EXCEPT ![loop_fn] = @ + 1]
  /\ ran_on' = ran_on \cup {LoopT}
  /\ lpc' = "relock"
  /\ UNCHANGED <<m_post_fn, m_async_fns, loop_fn, fdVars, lockVars, pipe,
                 clientVars, ppc, calls, returns, nested, connVars, dispVars, dtorVars,
                 auxVars>>

\* Unlock re-acquires the mutex, m_post_fn = nullptr, the lock goes out of
\* scope (lines 164-166)
LoopClearSlot ==
  /\ LoopIn({"relock"})
  /\ m_mutex = NoThread
  /\ m_post_fn' = nullptr
  /\ loop_fn' = nullptr
  /\ lpc' = "notify"
  /\ UNCHANGED <<m_async_fns, fdVars, lockVars, pipe, clientVars, postVars,
                 connVars, dispVars, dtorVars, auxVars>>

\* first operand of the exit condition (line 171)
NoClients(n) == n = 0

\* second operand of the exit condition (line 171)
NoAsyncFns(fns) == fns = <<>>

\* the loop going on without waking anybody
NotifyNone(waiters) == waiters

\* m_cv.notify_all() (line 170)
NotifyAll(waiters) == {}

\* m_cv.notify_all(), then the first operand of the exit condition, which
\* is read without the mutex (lines 170-171)
LoopNotifyCheck ==
  /\ LoopIn({"notify"})
  /\ cv_waiters' = NotifyAll(cv_waiters)
  /\ lpc' = IF NoClients(m_num_clients) THEN "check_fns" ELSE "read"
  /\ UNCHANGED <<m_post_fn, m_async_fns, loop_fn, fdVars, m_mutex, pipe,
                 clientVars, postVars, connVars, dispVars, dtorVars, auxVars>>

\* the second operand of the exit condition, read without the mutex at a
\* later moment than the first (line 171)
LoopCheckFns ==
  /\ LoopIn({"check_fns"})
  /\ lpc' = IF NoAsyncFns(m_async_fns) THEN "close" ELSE "read"
  /\ UNCHANGED <<m_post_fn, m_async_fns, loop_fn, fdVars, lockVars, pipe,
                 clientVars, postVars, connVars, dispVars, dtorVars, auxVars>>

\* break; the descriptors are closed and loop() returns (lines 172-182)
LoopClose ==
  /\ LoopIn({"close"})
  /\ m_wait_fd' = FdClosed
  /\ m_post_fd' = FdClosed
  /\ loop_thread' = [loop_thread EXCEPT ![LoopT] = FALSE]
  /\ lpc' = "done"
  /\ UNCHANGED <<m_post_fn, m_async_fns, loop_fn, lockVars, pipe, clientVars,
                 postVars, connVars, dispVars, dtorVars,
                 loop_assert, ioVars, proxVars, thrVars, threads_made, extVars>>

\* ------------------------------------------------------ EventLoop::post
\* post without the test for the loop thread
IsLoopThreadNever(t) == FALSE

\* std::this_thread::get_id() == m_thread_id (line 186)
IsLoopThread(t) == t = m_thread_id

\* post without the wait for an empty slot
SlotFreeAlways(fn) == TRUE

\* the predicate of the first m_cv.wait (line 190)
SlotFree(fn) == fn = nullptr

\* post without the wait for the loop thread
PostDoneAlways(fn, t) == TRUE

\* the predicate of the second m_cv.wait (line 196)
PostDone(fn, t) == fn # t

\* A thread is running code that can call post: the loop thread while it
\* handles an event or a posted function, another thread while it holds a
\* proxy of a live Connection.  The other threads are interchangeable and
\* are numbered in the order of their first call.
CanCall(t) ==
  /\ Running
  /\ ppc[t] = "idle"
  /\ IF t = LoopT
       THEN lpc \in {"read", "run_fn"} /\ calls[t] < MaxLoopPosts
       ELSE /\ calls[t] < MaxPosts
            /\ \A u \in Posters : u < t => calls[u] > 0
            /\ \E c \in Conns : cstate[c] = "live"

\* post(fn): on the loop thread fn runs synchronously and post returns, any
\* other thread goes on to take the mutex (lines 184-189)
PostCall(t) ==
  /\ CanCall(t)
  /\ calls' = [calls EXCEPT ![t] = @ + 1]
  /\ nested' = IF t = LoopT /\ lpc = "run_fn" THEN nested + 1 ELSE nested
  /\ IF IsLoopThread(t)
       THEN /\ ran' = [ran EXCEPT ![t] = @ + 1]
            /\ ran_on' = ran_on \cup {t}
            /\ returns' = [returns EXCEPT ![t] = @ + 1]
            /\ ppc' = ppc
       ELSE /\ ppc' = [ppc EXCEPT ![t] = "acquire"]
            /\ UNCHANGED <<ran, ran_on, returns>>
  /\ UNCHANGED <<m_post_fn, m_async_fns, loopVars, fdVars, lockVars, pipe,
                 clientVars, connVars, dispVars, dtorVars, auxVars>>

\* unique_lock lock(m_mutex); m_cv.wait(lock, m_post_fn == nullptr);
\* m_post_fn = &fn; Unlock releases the mutex (lines 189-192)
PostInstall(t) ==
  /\ Running
  /\ ppc[t] = "acquire"
  /\ t \notin cv_waiters
  /\ m_mutex = NoThread
  /\ IF SlotFree(m_post_fn)
       THEN /\ m_post_fn' = t
            /\ ppc' = [ppc EXCEPT ![t] = "write"]
            /\ cv_waiters' = cv_waiters
       ELSE /\ cv_waiters' = cv_waiters \cup {t}
            /\ UNCHANGED <<m_post_fn, ppc>>
  /\ UNCHANGED <<m_async_fns, loopVars, fdVars, m_mutex, pipe, clientVars,
                 calls, returns, ran, ran_on, nested, connVars, dispVars, dtorVars,
                 auxVars>>

\* KJ_SYSCALL(write(m_post_fd, &buffer, 1)): throws when the descriptor has
\* been closed, leaving m_post_fn as it is (lines 192-195)
PostWrite(t) ==
  /\ Running
  /\ ppc[t] = "write"
  /\ IF WakeOpen
       THEN WriteByte /\ ppc' = [ppc EXCEPT ![t] = "wait"]
       ELSE pipe' = pipe /\ ppc' = [ppc EXCEPT ![t] = "threw"]
  /\ UNCHANGED <<m_post_fn, m_async_fns, loopVars, fdVars, lockVars, clientVars,
                 calls, returns, ran, ran_on, nested, connVars, dispVars, dtorVars,
                 auxVars>>

\* Unlock re-acquires the mutex; m_cv.wait(lock, m_post_fn != &fn); return
\* (lines 195-197)
PostReturn(t) ==
  /\ Running
  /\ ppc[t] = "wait"
  /\ t \notin cv_waiters
  /\ m_mutex = NoThread
  /\ IF PostDone(m_post_fn, t)
       THEN /\ ppc' = [ppc EXCEPT ![t] = "idle"]
            /\ returns' = [returns EXCEPT ![t] = @ + 1]
            /\ cv_waiters' = cv_waiters
       ELSE /\ cv_waiters' = cv_waiters \cup {t}
            /\ UNCHANGED <<ppc, returns>>
  /\ UNCHANGED <<m_post_fn, m_async_fns, loopVars, fdVars, m_mutex, pipe,
                 clientVars, calls, ran, ran_on, nested, connVars, dispVars, dtorVars,
                 auxVars>>

\* std::condition_variable::wait may return without a notification.
SpuriousWake ==
  /\ Running
  /\ \E t \in cv_waiters : cv_waiters' = cv_waiters \ {t}
  /\ UNCHANGED <<m_post_fn, m_async_fns, loopVars, fdVars, m_mutex, pipe,
                 clientVars, postVars, connVars, dispVars, dtorVars, auxVars>>

\* ------------------------------------------ addClient / removeClient
\* addClient leaving the count as it is
addNoClient(n) == n

\* EventLoop::addClient (line 199)
addClient(n) == n + 1

\* EventLoop::removeClient: the decrement (line 204)
removeClient(n) == n - 1

\* removeClient waking the loop on every call
RemoveWakesAlways(n) == TRUE

\* EventLoop::removeClient: whether the caller notifies and then writes a
\* byte to the wake channel (line 205)
RemoveWakes(n) == n = 0

\* assert(m_num_clients > 0) (line 203)
ClientsLeft(n) == n > 0

\* removeClient(lock) up to the Unlock: assert, decrement (lines 203-204)
RemoveClientStep ==
  /\ ClientsLeft(m_num_clients)
  /\ m_num_clients' = removeClient(m_num_clients)
  /\ zeroed' = (zeroed \/ m_num_clients' = 0)

\* AddClient(loop): WAIT_LOCK and addClient (lines 238-242)
AddClient ==
  /\ Running
  /\ xpc = "idle"
  /\ x_calls < MaxExt
  /\ m_mutex = NoThread
  /\ m_num_clients' = addClient(m_num_clients)
  /\ x_calls' = x_calls + 1
  /\ x_held' = x_held + 1
  /\ UNCHANGED <<m_post_fn, m_async_fns, loopVars, fdVars, lockVars, pipe, zeroed,
                 postVars, connVars, dispVars, dtorVars, entryVars, ioVars,
                 proxVars, thrVars, threads_made, xpc>>

\* RemoveClient(loop), by the thread that called AddClient: WAIT_LOCK,
\* removeClient up to its Unlock (lines 243-247, 201-207)
RemoveClient ==
  /\ Running
  /\ xpc = "idle"
  /\ x_held > 0
  /\ m_mutex = NoThread
  /\ RemoveClientStep
  /\ x_held' = x_held - 1
  /\ IF RemoveWakes(m_num_clients')
       THEN cv_waiters' = {} /\ xpc' = "write"
       ELSE cv_waiters' = cv_waiters /\ xpc' = "idle"
  /\ UNCHANGED <<m_post_fn, m_async_fns, loopVars, fdVars, m_mutex, pipe,
                 postVars, connVars, dispVars, dtorVars, entryVars, ioVars,
                 proxVars, thrVars, threads_made, x_calls>>

\* removeClient's Unlock(lock, write(m_post_fd)), the re-lock and the
\* return of RemoveClient; the exception of KJ_SYSCALL on a closed
\* descriptor leaves RemoveClient (lines 207-211)
RemoveClientWrite ==
  /\ Running
  /\ xpc = "write"
  /\ m_mutex = NoThread
  /\ IF WakeOpen
       THEN WriteByte /\ xpc' = "idle"
       ELSE pipe' = pipe /\ xpc' = "threw"
  /\ UNCHANGED <<m_post_fn, m_async_fns, loopVars, fdVars, lockVars,
                 clientVars, postVars, connVars, dispVars, dtorVars, entryVars,
                 ioVars, proxVars, thrVars, threads_made, x_calls, x_held>>

\* --------------------------------------------------------- Connection
\* A Connection is set up on the loop thread while it waits for events and
\* counts as one client of its EventLoop until ~Connection (line 105).
ConnCreate(c) ==
  /\ LoopIn({"read"})
  /\ cstate[c] = "none"
  /\ \A b \in Conns : b < c => cstate[b] # "none"
  /\ m_mutex = NoThread
  /\ cstate' = [cstate EXCEPT ![c] = "live"]
  /\ m_num_clients' = addClient(m_num_clients)
  /\ UNCHANGED <<m_post_fn, m_async_fns, loopVars, fdVars, lockVars, pipe, zeroed,
                 postVars, cd_conn, m_sync_cleanup_fns, m_async_cleanup_fns,
                 sync_regs, async_regs, sync_runs, dispVars, dtorVars, auxVars>>

\* addSyncCleanup putting the new action behind the others
EmplaceBack(fns, fn) == Append(fns, fn)

\* m_sync_cleanup_fns.emplace(m_sync_cleanup_fns.begin(), fn) (line 111)
EmplaceFront(fns, fn) == <<fn>> \o fns

\* Connection::addSyncCleanup, called at most n times per Connection:
\* emplace at the front, under the mutex (lines 108-112)
addSyncCleanupUpTo(c, n) ==
  /\ Running
  /\ cstate[c] = "live"
  /\ sync_regs[c] < n
  /\ m_mutex = NoThread
  /\ sync_regs' = [sync_regs EXCEPT ![c] = @ + 1]
  /\ m_sync_cleanup_fns' = [m_sync_cleanup_fns EXCEPT
                              ![c] = EmplaceFront(@, <<c, sync_regs[c] + 1>>)]
  /\ UNCHANGED <<m_post_fn, m_async_fns, loopVars, fdVars, lockVars, pipe,
                 clientVars, postVars, cstate, cd_conn, m_async_cleanup_fns,
                 async_regs, sync_runs, dispVars, dtorVars, auxVars>>

addSyncCleanup(c) == addSyncCleanupUpTo(c, MaxCleanup)

\* A client proxy is constructed on a Connection: its constructor registers
\* the synchronous cleanup action that will null its capability handle.
MakeProxyClient(c) == addSyncCleanupUpTo(c, MaxSync)

\* the client proxy whose cleanup action is s exists
Alive(s) == s[2] <= sync_regs[s[1]] /\ s \notin removed

\* the cleanup action of client proxy s has run: m_client and m_connection
\* of the proxy are null
Disconnected(s) == sync_runs[s] > 0

\* removeSyncCleanup erasing the front of the list, whatever it names
EraseFront(fns, s) == Tail(fns)

\* m_sync_cleanup_fns.erase(it) (line 117)
Erase(fns, s) == SelectSeq(fns, LAMBDA x : x # s)

\* Connection::removeSyncCleanup, called by the destructor of a client
\* proxy that is still connected (lines 114-118)
removeSyncCleanup(s) ==
  /\ Running
  /\ Alive(s)
  /\ ~Disconnected(s)
  /\ cstate[s[1]] = "live"
  /\ m_mutex = NoThread
  /\ m_sync_cleanup_fns' = [m_sync_cleanup_fns EXCEPT ![s[1]] = Erase(@, s)]
  /\ removed' = removed \cup {s}
  /\ UNCHANGED <<m_post_fn, m_async_fns, loopVars, fdVars, lockVars, pipe,
                 clientVars, postVars, cstate, cd_conn, m_async_cleanup_fns,
                 sync_regs, async_regs, sync_runs, dispVars, dtorVars,
                 entryVars, ioVars, refused, thrVars, threads_made, extVars>>

\* A thread calls a method of client proxy s: a disconnected proxy makes
\* the call fail at once, a connected one hands it to the event loop.
ProxyCall(t, s) ==
  /\ Running
  /\ Alive(s)
  /\ IF Disconnected(s)
       THEN /\ ppc[t] = "idle"
            /\ Cardinality(refused) < MaxRefused
            /\ refused' = refused \cup {<<s, cstate[s[1]]>>}
            /\ UNCHANGED <<coreVars, entryVars, ioVars, removed, thrVars, threads_made, extVars>>
       ELSE PostCall(t)

\* Connection::addAsyncCleanup: emplace at the front, under the mutex
\* (lines 120-124)
addAsyncCleanupUpTo(c, n) ==
  /\ Running
  /\ cstate[c] = "live"
  /\ async_regs[c] < n
  /\ m_mutex = NoThread
  /\ async_regs' = [async_regs EXCEPT ![c] = @ + 1]
  /\ m_async_cleanup_fns' = [m_async_cleanup_fns EXCEPT
                               ![c] = EmplaceFront(@, <<c, async_regs[c] + 1>>)]
  /\ UNCHANGED <<m_post_fn, m_async_fns, loopVars, fdVars, lockVars, pipe,
                 clientVars, postVars, cstate, cd_conn, m_sync_cleanup_fns,
                 sync_regs, sync_runs, dispVars, dtorVars, auxVars>>

addAsyncCleanup(c) == addAsyncCleanupUpTo(c, MaxCleanup)

\* ~Connection is entered on the loop thread ("disconnect code runs in the
\* event loop thread", lines 90-93)
ConnDestroy(c) ==
  /\ LoopIn({"read"})
  /\ cstate[c] = "live"
  /\ cstate' = [cstate EXCEPT ![c] = "destroying"]
  /\ cd_conn' = c
  /\ lpc' = "cd"
  /\ UNCHANGED <<m_post_fn, m_async_fns, loop_fn, fdVars, lockVars, pipe,
                 clientVars, postVars, m_sync_cleanup_fns, m_async_cleanup_fns,
                 sync_regs, async_regs, sync_runs, dispVars, dtorVars, auxVars>>

\* ~Connection dropping the rest of the list after the first action
PopAll(fns) == <<>>

\* m_sync_cleanup_fns.pop_front() (line 96)
PopFront(fns) == Tail(fns)

\* while (!m_sync_cleanup_fns.empty()) { front()(); pop_front(); }
\* (lines 94-97)
CdSync ==
  /\ LoopIn({"cd"})
  /\ m_sync_cleanup_fns[cd_conn] # <<>>
  /\ sync_runs' = [sync_runs EXCEPT ![Head(m_sync_cleanup_fns[cd_conn])] = @ + 1]
  /\ m_sync_cleanup_fns' = [m_sync_cleanup_fns EXCEPT ![cd_conn] = PopFront(@)]
  /\ UNCHANGED <<m_post_fn, m_async_fns, loopVars, fdVars, lockVars, pipe,
                 clientVars, postVars, cstate, cd_conn, m_async_cleanup_fns,
                 sync_regs, async_regs, dispVars, dtorVars, auxVars>>

\* ~Connection handing over the asynchronous list first
SyncDrainedAlways(fns) == TRUE

\* the second while loop of ~Connection is reached only when the first one
\* has emptied the synchronous list (lines 94-98)
SyncDrained(fns) == fns = <<>>

\* while (!m_async_cleanup_fns.empty()) { lock; m_loop.m_async_fns
\* .emplace_back(front()); pop_front(); } (lines 98-102)
CdMove ==
  /\ LoopIn({"cd"})
  /\ SyncDrained(m_sync_cleanup_fns[cd_conn])
  /\ m_async_cleanup_fns[cd_conn] # <<>>
  /\ m_mutex = NoThread
  /\ m_async_fns' = Append(m_async_fns, Head(m_async_cleanup_fns[cd_conn]))
  /\ m_async_cleanup_fns' = [m_async_cleanup_fns EXCEPT ![cd_conn] = Tail(@)]
  /\ UNCHANGED <<m_post_fn, loopVars, fdVars, lockVars, pipe, clientVars,
                 postVars, cstate, cd_conn, m_sync_cleanup_fns, sync_regs,
                 async_regs, sync_runs, dispVars, dtorVars, auxVars>>

\* startAsyncThread creating a thread whatever the queue holds
SpawnsUnlessJoinable(joinable, fns) == ~joinable

\* EventLoop::startAsyncThread: a thread is created only when
\* m_async_thread is not joinable and the queue is not empty
\* (lines 216-219)
SpawnsThread(joinable, fns) == ~joinable /\ fns # <<>>

\* WAIT_LOCK; m_loop.startAsyncThread(lock); m_loop.removeClient(lock);
\* (lines 103-105, 201-207, 214-219)
CdFinish ==
  /\ LoopIn({"cd"})
  /\ SyncDrained(m_sync_cleanup_fns[cd_conn])
  /\ m_async_cleanup_fns[cd_conn] = <<>>
  /\ m_mutex = NoThread
  /\ IF SpawnsThread(m_async_thread, m_async_fns)
       THEN /\ m_async_thread' = TRUE
            /\ dpc' = "acquire"
            /\ threads_made' = threads_made + 1
       ELSE UNCHANGED <<m_async_thread, dpc, threads_made>>
  /\ RemoveClientStep
  /\ IF RemoveWakes(m_num_clients')
       THEN /\ cv_waiters' = {}
            /\ lpc' = "cd_write"
            /\ UNCHANGED <<cstate, cd_conn>>
       ELSE /\ cv_waiters' = IF m_async_thread THEN {} ELSE cv_waiters
            /\ lpc' = "read"
            /\ cstate' = [cstate EXCEPT ![cd_conn] = "destroyed"]
            /\ cd_conn' = NoConn
  /\ UNCHANGED <<m_post_fn, m_async_fns, loop_fn, fdVars, m_mutex, pipe, postVars,
                 m_sync_cleanup_fns, m_async_cleanup_fns, sync_regs, async_regs,
                 sync_runs, async_runs, d_fn, dtorVars, entryVars, ioVars,
                 proxVars, thrVars, extVars>>

\* removeClient's Unlock(lock, write(m_post_fd)), the re-lock, and the
\* return of ~Connection (lines 105-106, 207-211)
CdWrite ==
  /\ LoopIn({"cd_write"})
  /\ m_mutex = NoThread
  /\ IF WakeOpen THEN WriteByte ELSE pipe' = pipe
  /\ lpc' = "read"
  /\ cstate' = [cstate EXCEPT ![cd_conn] = "destroyed"]
  /\ cd_conn' = NoConn
  /\ UNCHANGED <<m_post_fn, m_async_fns, loop_fn, fdVars, lockVars, clientVars,
                 postVars, m_sync_cleanup_fns, m_async_cleanup_fns, sync_regs,
                 async_regs, sync_runs, dispVars, dtorVars, auxVars>>

\* -------------------------------------- the dispatcher (m_async_thread)
\* WAIT_LOCK at thread start, the re-lock at the end of removeClient's
\* Unlock, and the return from m_cv.wait(lock) (lines 220, 207-211, 232)
DispAcquire ==
  /\ Running
  /\ dpc = "acquire"
  /\ DispT \notin cv_waiters
  /\ m_mutex = NoThread
  /\ m_mutex' = DispT
  /\ dpc' = "top"
  /\ UNCHANGED <<m_post_fn, m_async_fns, loopVars, fdVars, cv_waiters, pipe,
                 clientVars, postVars, connVars, m_async_thread, async_runs, d_fn,
                 dtorVars, auxVars>>

\* the dispatcher taking the action queued last
QueueBack(fns) == fns[Len(fns)]

\* m_async_fns.front() (line 223)
QueueFront(fns) == Head(fns)

\* the dispatcher leaving its loop whenever the queue is empty
DispExitsAlways(n) == TRUE

\* the dispatcher leaves its loop (line 229)
DispExits(n) == n = 0

\* one pass of while (true) with the mutex held: take an action (addClient,
\* pop_front), or break, or m_cv.wait (lines 221-225, 229-233)
DispTop ==
  /\ Running
  /\ dpc = "top"
  /\ IF m_async_fns # <<>>
       THEN /\ m_num_clients' = addClient(m_num_clients)
            /\ d_fn' = QueueFront(m_async_fns)
            /\ m_async_fns' = Tail(m_async_fns)
            /\ dpc' = "unlock"
            /\ UNCHANGED <<m_mutex, cv_waiters>>
       ELSE IF DispExits(m_num_clients)
         THEN /\ dpc' = "exited"
              /\ m_mutex' = NoThread
              /\ UNCHANGED <<m_num_clients, d_fn, m_async_fns, cv_waiters>>
         ELSE /\ dpc' = "acquire"
              /\ cv_waiters' = cv_waiters \cup {DispT}
              /\ m_mutex' = NoThread
              /\ UNCHANGED <<m_num_clients, d_fn, m_async_fns>>
  /\ UNCHANGED <<m_post_fn, loopVars, fdVars, pipe, zeroed, postVars, connVars,
                 m_async_thread, async_runs, dtorVars, auxVars>>

\* the dispatcher calling fn() with the lock still held
UnlockKeeps(holder) == holder

\* Unlock(lock, fn) releases the mutex for the duration of fn (line 226)
Unlocked(holder) == NoThread

\* Unlock(lock, fn): the mutex is released and the action starts (line 226)
DispUnlock ==
  /\ Running
  /\ dpc = "unlock"
  /\ m_mutex' = Unlocked(m_mutex)
  /\ dpc' = "run"
  /\ UNCHANGED <<m_post_fn, m_async_fns, loopVars, fdVars, cv_waiters, pipe,
                 clientVars, postVars, connVars, m_async_thread, async_runs, d_fn,
                 dtorVars, auxVars>>

\* the action returns (line 226)
DispRun ==
  /\ Running
  /\ dpc = "run"
  /\ async_runs' = [async_runs EXCEPT ![d_fn] = @ + 1]
  /\ dpc' = "relock"
  /\ UNCHANGED <<m_post_fn, m_async_fns, loopVars, fdVars, lockVars, pipe,
                 clientVars, postVars, connVars, m_async_thread, d_fn, dtorVars,
                 auxVars>>

\* Unlock re-acquires the mutex; removeClient(lock): decrement and, at
\* zero, notify_all and release the mutex for the write; otherwise continue
\* with the mutex held (lines 226-228, 201-207)
DispRemoveClient ==
  /\ Running
  /\ dpc = "relock"
  /\ m_mutex = NoThread
  /\ RemoveClientStep
  /\ d_fn' = NoFn
  /\ IF RemoveWakes(m_num_clients')
       THEN cv_waiters' = {} /\ dpc' = "write" /\ m_mutex' = NoThread
       ELSE cv_waiters' = cv_waiters /\ dpc' = "top" /\ m_mutex' = DispT
  /\ UNCHANGED <<m_post_fn, m_async_fns, loopVars, fdVars, pipe, postVars,
                 connVars, m_async_thread, async_runs, dtorVars, auxVars>>

\* KJ_SYSCALL(write(m_post_fd, &buffer, 1)) in removeClient: the exception
\* thrown on a closed descriptor leaves the thread function and terminates
\* the process (lines 207-210)
DispWrite ==
  /\ Running
  /\ dpc = "write"
  /\ IF WakeOpen
       THEN WriteByte /\ dpc' = "acquire"
       ELSE pipe' = pipe /\ dpc' = "crashed"
  /\ UNCHANGED <<m_post_fn, m_async_fns, loopVars, fdVars, lockVars, clientVars,
                 postVars, connVars, m_async_thread, async_runs, d_fn, dtorVars,
                 auxVars>>

\* ------------------------------------------------ EventLoop::~EventLoop
\* the destructor is entered (line 135)
DtorStart ==
  /\ Running
  /\ epc = "none"
  /\ epc' = "join"
  /\ e_early' = (m_num_clients # 0 \/ m_async_fns # <<>>)
  /\ UNCHANGED <<m_post_fn, m_async_fns, loopVars, fdVars, lockVars, pipe,
                 clientVars, postVars, connVars, dispVars, auxVars>>

\* if (m_async_thread.joinable()) m_async_thread.join(): returns when the
\* dispatcher has left its thread function (line 137)
DtorJoin ==
  /\ Running
  /\ epc = "join"
  /\ m_async_thread => dpc = "exited"
  /\ m_async_thread' = FALSE
  /\ epc' = "assert"
  /\ UNCHANGED <<m_post_fn, m_async_fns, loopVars, fdVars, lockVars, pipe,
                 clientVars, postVars, connVars, async_runs, dpc, d_fn, e_early,
                 auxVars>>

\* the five KJ_ASSERTs (lines 139-143)
DtorPreconditions ==
  /\ m_post_fn = nullptr
  /\ m_async_fns = <<>>
  /\ m_wait_fd = FdClosed
  /\ m_post_fd = FdClosed
  /\ m_num_clients = 0

\* lock_guard lock(m_mutex) and the assertions (lines 138-143)
DtorCheck ==
  /\ Running
  /\ epc = "assert"
  /\ m_mutex = NoThread
  /\ epc' = IF DtorPreconditions THEN "destroyed" ELSE "assert_failed"
  /\ UNCHANGED <<m_post_fn, m_async_fns, loopVars, fdVars, lockVars, pipe,
                 clientVars, postVars, connVars, dispVars, e_early, auxVars>>

\* ------------------------------- Thread / ThreadMap proxies and Waiter
\* The process is gone once an assertion failed or a worker thread
\* faulted.
TRunning == \A w \in Workers : tstate[w] # "assert_failed" /\ wpc[w] # "crashed"

\* The loop thread is inside makeThread, blocked on the future, or inside
\* ~ProxyServer<Thread>.
LoopBusyT == \E w \in Workers : tstate[w] \in {"spawned", "dtor", "join"}

\* clientInvoke creates a worker thread for a caller that has none
Making(p) == IF p = "need_M" THEN "making_M" ELSE "making_N"

Sending(p) == IF p = "making_M" THEN "send_M" ELSE "send_N"

\* makeThread: the native thread is created with the name it is made for,
\* and the loop thread blocks on the future (lines 292-305)
makeThread(w, from) ==
  /\ TRunning
  /\ ~LoopBusyT
  /\ tstate[w] = "none"
  /\ \A v \in Workers : v < w => tstate[v] # "none"
  /\ tstate' = [tstate EXCEPT ![w] = "spawned"]
  /\ wpc' = [wpc EXCEPT ![w] = "init"]
  /\ thread_name' = [thread_name EXCEPT ![w] = from]
  /\ IF from = NoCaller
       THEN apc' = apc
       ELSE /\ apc[from] \in {"need_M", "need_N"}
            /\ apc' = [apc EXCEPT ![from] = Making(@)]
  /\ UNCHANGED <<coreVars, entryVars, ioVars, proxVars, ctx_waiter, m_fn,
                 w_stack, request_threads, callback_threads, a_thread, threads_made, extVars,
                 m_threads>>

\* the thread function up to set_value: thread_name, waiter =
\* MakeUnique<Waiter>(), the promise is fulfilled (lines 297-299)
WorkerInit(w) ==
  /\ TRunning
  /\ wpc[w] = "init"
  /\ ctx_waiter' = [ctx_waiter EXCEPT ![w] = TRUE]
  /\ wpc' = [wpc EXCEPT ![w] = "lock"]
  /\ UNCHANGED <<coreVars, entryVars, ioVars, proxVars, m_fn, w_stack,
                 tstate, request_threads, callback_threads, thread_name, apc, a_thread, threads_made, extVars,
                 m_threads>>

\* assert(m_thread_context.waiter.get() != nullptr) in the constructor of
\* ProxyServer<Thread> (line 252)
HasWaiter(p) == p

\* makeThread returning a capability that is in no table
AddNothing(threads, w) == threads

\* m_connection.m_threads.add(kj::mv(thread_server)) (line 306)
AddThread(threads, w) == threads \cup {w}

\* the future is ready: the ProxyServer<Thread> is constructed and the
\* capability returned; a caller that asked for the thread records it as
\* its request thread (lines 249-253, 305-308)
makeThreadReturn(w) ==
  /\ TRunning
  /\ tstate[w] = "spawned"
  /\ wpc[w] # "init"
  /\ tstate' = [tstate EXCEPT ![w] = IF HasWaiter(ctx_waiter[w]) THEN "live"
                                                               ELSE "assert_failed"]
  /\ m_threads' = IF HasWaiter(ctx_waiter[w]) THEN AddThread(m_threads, w)
                                                ELSE m_threads
  /\ IF thread_name[w] = NoCaller
       THEN UNCHANGED <<apc, a_thread>>
       ELSE /\ apc' = [apc EXCEPT ![thread_name[w]] = Sending(@)]
            /\ a_thread' = [a_thread EXCEPT ![thread_name[w]] = w]
  /\ UNCHANGED <<coreVars, entryVars, ioVars, proxVars, wpc, ctx_waiter,
                 m_fn, w_stack, request_threads, callback_threads, thread_name, threads_made, extVars>>

\* What a use of g_thread_context.waiter can do once the pointer has been
\* moved from: the thread faults, or it goes on with the Waiter the
\* pointer named before.
NullDeref == {"crashed", "stale"}

Deref(p) == IF p THEN {"ok"} ELSE NullDeref

\* g_thread_context.waiter->m_mutex is evaluated, without any lock
\* (line 300)
WorkerDeref(w) ==
  /\ TRunning
  /\ wpc[w] = "lock"
  /\ \E o \in Deref(ctx_waiter[w]) :
       wpc' = [wpc EXCEPT ![w] = IF o = "crashed" THEN "crashed" ELSE "enter"]
  /\ UNCHANGED <<coreVars, entryVars, ioVars, proxVars, ctx_waiter, m_fn,
                 w_stack, tstate, request_threads, callback_threads, thread_name,
                 apc, a_thread, threads_made, extVars,
                 m_threads>>

\* the thread function's wait ending at its first evaluation
ShutdownAlways(p) == TRUE

\* the predicate of the thread function's wait:
\* [] { return !g_thread_context.waiter; } (line 303)
ShutdownSignalled(p) == ~p

\* the predicate a wait of the worker is waiting for: the shutdown signal
\* in the thread function, the reply in a call the worker makes
WaitDone(w) ==
  IF w_stack[w] = <<>>
    THEN ShutdownSignalled(ctx_waiter[w])
    ELSE apc[Head(w_stack[w])[1]] = "cb_ret"

\* One evaluation of Waiter::wait with the Waiter's mutex held: a pending
\* function is taken out of m_fn and run with the mutex released;
\* otherwise the wait ends if its predicate holds, and blocks on the
\* condition variable if not.
WaitEval(w) ==
  IF m_fn[w] # NoCall
    THEN /\ m_fn' = [m_fn EXCEPT ![w] = NoCall]
         /\ w_stack' = [w_stack EXCEPT ![w] = <<m_fn[w]>> \o @]
         /\ request_threads' = [request_threads EXCEPT ![w] = {m_fn[w][1]}]
         /\ wpc' = [wpc EXCEPT ![w] = "run"]
         /\ apc' = apc
    ELSE /\ UNCHANGED <<m_fn, request_threads>>
         /\ IF ~WaitDone(w)
              THEN /\ wpc' = [wpc EXCEPT ![w] = "parked"]
                   /\ UNCHANGED <<w_stack, apc>>
              ELSE IF w_stack[w] = <<>>
                THEN /\ wpc' = [wpc EXCEPT ![w] = "exited"]
                     /\ UNCHANGED <<w_stack, apc>>
                ELSE /\ wpc' = [wpc EXCEPT ![w] = "run"]
                     /\ w_stack' = [w_stack EXCEPT ![w] = Tail(@)]
                     /\ apc' = [apc EXCEPT ![Head(w_stack[w])[1]] = "wait_M2"]

\* unique_lock lock(waiter->m_mutex) is granted and
\* g_thread_context.waiter->wait(lock, ...) is called (lines 300-303)
WorkerEnterWait(w) ==
  /\ TRunning
  /\ wpc[w] = "enter"
  /\ \E o \in Deref(ctx_waiter[w]) :
       IF o = "crashed"
         THEN /\ wpc' = [wpc EXCEPT ![w] = "crashed"]
              /\ UNCHANGED <<m_fn, w_stack, request_threads, apc>>
         ELSE WaitEval(w)
  /\ UNCHANGED <<coreVars, entryVars, ioVars, proxVars, ctx_waiter, tstate,
                 callback_threads, thread_name, a_thread, threads_made, extVars,
                 m_threads>>

\* inside Waiter::wait the mutex is taken again, after a notification or
\* after a function has run, and the wait is evaluated once more
WorkerRecheck(w) ==
  /\ TRunning
  /\ wpc[w] = "recheck"
  /\ WaitEval(w)
  /\ UNCHANGED <<coreVars, entryVars, ioVars, proxVars, ctx_waiter, tstate,
                 callback_threads, thread_name, a_thread, threads_made, extVars,
                 m_threads>>

\* std::condition_variable::wait may return without a notification
WorkerSpuriousWake(w) ==
  /\ TRunning
  /\ wpc[w] = "parked"
  /\ wpc' = [wpc EXCEPT ![w] = "recheck"]
  /\ UNCHANGED <<coreVars, entryVars, ioVars, proxVars, ctx_waiter, m_fn,
                 w_stack, tstate, request_threads, callback_threads, thread_name,
                 apc, a_thread, threads_made, extVars,
                 m_threads>>

\* m_cv.notify_all() of a Waiter
NotifyWaiter(w) == [wpc EXCEPT ![w] = IF @ = "parked" THEN "recheck" ELSE @]

\* clientInvoke without the lookup of the caller's request thread
HasThreadNever(t) == FALSE

\* clientInvoke: the calling thread already has a worker thread on the
\* other side of the Connection
HasThread(t) == t # NoWorker

\* A caller invokes a remote method M, or, from inside the callback that M
\* made into it, a nested remote method N: the request goes to the
\* caller's worker thread, which is created first if there is none.
ClientInvoke(a) ==
  /\ TRunning
  /\ apc[a] \in {"idle", "in_cb"}
  /\ apc' = [apc EXCEPT ![a] =
               IF HasThread(a_thread[a])
                 THEN (IF @ = "idle" THEN "send_M" ELSE "send_N")
                 ELSE (IF @ = "idle" THEN "need_M" ELSE "need_N")]
  /\ UNCHANGED <<coreVars, entryVars, ioVars, proxVars, wpc, ctx_waiter,
                 m_fn, w_stack, tstate, request_threads, callback_threads,
                 thread_name, a_thread, threads_made, extVars,
                 m_threads>>

\* Waiter::post, called by the loop thread for the request of caller a:
\* the function is stored in the free slot m_fn and the Waiter notified.
WaiterPost(a) ==
  /\ TRunning
  /\ ~LoopBusyT
  /\ apc[a] \in {"send_M", "send_N"}
  /\ tstate[a_thread[a]] = "live"
  /\ m_fn[a_thread[a]] = NoCall
  /\ m_fn' = [m_fn EXCEPT ![a_thread[a]] =
                <<a, IF apc[a] = "send_M" THEN "M" ELSE "N">>]
  /\ wpc' = NotifyWaiter(a_thread[a])
  /\ apc' = [apc EXCEPT ![a] = IF @ = "send_M" THEN "wait_M" ELSE "wait_N"]
  /\ UNCHANGED <<coreVars, entryVars, ioVars, proxVars, ctx_waiter,
                 w_stack, tstate, request_threads, callback_threads, thread_name,
                 a_thread, threads_made, extVars,
                 m_threads>>

\* The method a worker runs calls back into its caller: the worker records
\* its callback thread and waits on its own Waiter for the reply, and the
\* caller starts to run the callback.
WorkerCallback(w) ==
  /\ TRunning
  /\ wpc[w] = "run"
  /\ Head(w_stack[w])[2] = "M"
  /\ \E o \in Deref(ctx_waiter[w]) :
       IF o = "crashed"
         THEN /\ wpc' = [wpc EXCEPT ![w] = "crashed"]
              /\ UNCHANGED <<w_stack, callback_threads, apc>>
         ELSE /\ wpc' = [wpc EXCEPT ![w] = "recheck"]
              /\ w_stack' = [w_stack EXCEPT ![w] =
                   <<<<Head(@)[1], "cb">>, <<Head(@)[1], "Mcb">>>> \o Tail(@)]
              /\ callback_threads' = [callback_threads EXCEPT ![w] = {w}]
              /\ apc' = [apc EXCEPT ![Head(w_stack[w])[1]] = "in_cb"]
  /\ UNCHANGED <<coreVars, entryVars, ioVars, proxVars, ctx_waiter, m_fn,
                 tstate, request_threads, thread_name, a_thread, threads_made, extVars,
                 m_threads>>

\* The method a worker runs returns: the reply of N ends the caller's
\* callback, the reply of M ends the caller's chain of calls; the worker
\* goes back to the wait it was called from.
WorkerRunDone(w) ==
  /\ TRunning
  /\ wpc[w] = "run"
  /\ w_stack' = [w_stack EXCEPT ![w] = Tail(@)]
  /\ apc' = [apc EXCEPT ![Head(w_stack[w])[1]] =
               IF Head(w_stack[w])[2] = "N" THEN "cb_ret" ELSE "done"]
  /\ wpc' = [wpc EXCEPT ![w] = "recheck"]
  /\ UNCHANGED <<coreVars, entryVars, ioVars, proxVars, ctx_waiter, m_fn,
                 tstate, request_threads, callback_threads, thread_name, a_thread, threads_made, extVars,
                 m_threads>>

\* ~ProxyServer<Thread> is entered on the loop thread: m_thread is
\* joinable and the waiter pointer is set (lines 257-263)
ThreadDtorStart(w) ==
  /\ TRunning
  /\ ~LoopBusyT
  /\ tstate[w] = "live"
  /\ tstate' = [tstate EXCEPT ![w] = IF HasWaiter(ctx_waiter[w]) THEN "dtor"
                                                               ELSE "assert_failed"]
  /\ UNCHANGED <<coreVars, entryVars, ioVars, proxVars, wpc, ctx_waiter,
                 m_fn, w_stack, request_threads, callback_threads, thread_name,
                 apc, a_thread, threads_made, extVars,
                 m_threads>>

\* the destructor taking a busy Waiter for an idle one
WaiterIdleAlways(fn) == TRUE

\* assert(!waiter->m_fn) (line 271)
WaiterIdle(fn) == fn = NoCall

\* the block under the Waiter's mutex: the waiter pointer is moved out,
\* the assertion is checked, the maps are cleared and the Waiter notified
\* (lines 265-280)
ThreadDtorSignal(w) ==
  /\ TRunning
  /\ tstate[w] = "dtor"
  /\ ctx_waiter' = [ctx_waiter EXCEPT ![w] = FALSE]
  /\ IF WaiterIdle(m_fn[w])
       THEN /\ request_threads' = [request_threads EXCEPT ![w] = {}]
            /\ callback_threads' = [callback_threads EXCEPT ![w] = {}]
            /\ wpc' = NotifyWaiter(w)
            /\ tstate' = [tstate EXCEPT ![w] = "join"]
       ELSE /\ tstate' = [tstate EXCEPT ![w] = "assert_failed"]
            /\ UNCHANGED <<request_threads, callback_threads, wpc>>
  /\ UNCHANGED <<coreVars, entryVars, ioVars, proxVars, m_fn, w_stack,
                 thread_name, apc, a_thread, threads_made, extVars,
                 m_threads>>

\* m_thread.join() returns when the thread function has returned
\* (line 281)
ThreadDtorJoin(w) ==
  /\ TRunning
  /\ tstate[w] = "join"
  /\ wpc[w] = "exited"
  /\ tstate' = [tstate EXCEPT ![w] = "joined"]
  /\ UNCHANGED <<coreVars, entryVars, ioVars, proxVars, wpc, ctx_waiter,
                 m_fn, w_stack, request_threads, callback_threads, thread_name,
                 apc, a_thread, threads_made, extVars,
                 m_threads>>

\* ------------------------------------------------------------------ Next
LoopStep ==
  \/ LoopStart
  \/ LoopRead
  \/ LoopLock
  \/ LoopDispatch
  \/ LoopRunFn
  \/ LoopClearSlot
  \/ LoopNotifyCheck
  \/ LoopCheckFns
  \/ LoopClose

PostStep(t) ==
  \/ PostInstall(t)
  \/ PostWrite(t)
  \/ PostReturn(t)

ConnStep ==
  \/ CdSync
  \/ CdMove
  \/ CdFinish
  \/ CdWrite

DispStep ==
  \/ DispAcquire
  \/ DispTop
  \/ DispUnlock
  \/ DispRun
  \/ DispRemoveClient
  \/ DispWrite

DtorStep ==
  \/ DtorStart
  \/ DtorJoin
  \/ DtorCheck

\* what the code around the EventLoop decides to do
EnvStep ==
  \/ \E t \in Threads : PostCall(t)
  \/ \E c \in Conns : ConnCreate(c)
  \/ \E c \in Conns : addSyncCleanup(c)
  \/ \E c \in Conns : addAsyncCleanup(c)
  \/ \E c \in Conns : ConnDestroy(c)
  \/ SpuriousWake

Next ==
  \/ LoopStep
  \/ \E t \in Threads : PostStep(t)
  \/ ConnStep
  \/ DispStep
  \/ EnvStep

\* the EventLoop in use: it is not destroyed
Spec == Init /\ [][Next]_vars

\* the same with one thread that calls post
NextOne ==
  \/ LoopStep
  \/ PostStep(1)
  \/ ConnStep
  \/ DispStep
  \/ PostCall(1)
  \/ \E c \in Conns : ConnCreate(c)
  \/ \E c \in Conns : addSyncCleanup(c)
  \/ \E c \in Conns : addAsyncCleanup(c)
  \/ \E c \in Conns : ConnDestroy(c)
  \/ SpuriousWake

NextD ==
  \/ NextOne
  \/ DtorStep

\* the EventLoop with an owner that may destroy it at any moment
SpecD == Init /\ [][NextD]_vars

\* Every thread that can take a step of the code eventually takes it, and
\* the mutex is eventually granted to a thread that keeps asking for it.
\* Calling post and creating, filling or destroying a Connection are under
\* no obligation.
Fairness ==
  /\ SF_vars(LoopStep)
  /\ SF_vars(PostStep(1))
  /\ SF_vars(ConnStep)
  /\ SF_vars(DispStep)

FairSpec == Init /\ [][NextOne]_vars /\ Fairness

\* The same, except that an asynchronous cleanup action may take forever:
\* the dispatcher owes every step but the return of the action.
SlowFairness ==
  /\ SF_vars(LoopStep)
  /\ SF_vars(PostStep(1))
  /\ SF_vars(ConnStep)
  /\ SF_vars(DispAcquire \/ DispTop \/ DispUnlock \/ DispRemoveClient \/ DispWrite)

SlowSpec == Init /\ [][NextOne]_vars /\ SlowFairness

\* the EventLoop when loop() is called again and when the wake channel is
\* shut down under it
NextL ==
  \/ NextOne
  \/ LoopEnterAgain(LoopT)
  \/ LoopEnterAgain(Entrant)
  \/ PeerShutdown

SpecL == Init /\ [][NextL]_vars

\* the EventLoop with Connections whose client proxies are made, called
\* and destroyed; no asynchronous cleanup action is registered
NextC ==
  \/ LoopStep
  \/ PostStep(1)
  \/ CdSync
  \/ CdFinish
  \/ CdWrite
  \/ \E s \in SyncIds : ProxyCall(1, s)
  \/ \E c \in Conns : ConnCreate(c)
  \/ \E c \in Conns : MakeProxyClient(c)
  \/ \E s \in SyncIds : removeSyncCleanup(s)
  \/ \E c \in Conns : ConnDestroy(c)
  \/ SpuriousWake

SpecC == Init /\ [][NextC]_vars

\* the EventLoop with Connections that register several asynchronous
\* cleanup actions each, and one thread that calls post; no synchronous
\* action is registered
NextA ==
  \/ LoopStep
  \/ PostCall(1)
  \/ PostStep(1)
  \/ CdMove
  \/ CdFinish
  \/ CdWrite
  \/ DispStep
  \/ \E c \in Conns : ConnCreate(c)
  \/ \E c \in Conns : addAsyncCleanupUpTo(c, MaxAsync)
  \/ \E c \in Conns : ConnDestroy(c)
  \/ SpuriousWake

SpecA == Init /\ [][NextA]_vars

\* the EventLoop with a thread that holds it as a client through the free
\* functions AddClient and RemoveClient
NextK ==
  \/ NextOne
  \/ AddClient
  \/ RemoveClient
  \/ RemoveClientWrite

SpecK == Init /\ [][NextK]_vars

WorkerStep(w) ==
  \/ WorkerInit(w)
  \/ WorkerDeref(w)
  \/ WorkerEnterWait(w)
  \/ WorkerRecheck(w)
  \/ WorkerRunDone(w)
  \/ WorkerCallback(w)

\* the calls of one caller through its worker thread
CallStep ==
  \/ \E a \in Callers : ClientInvoke(a)
  \/ \E a \in Callers : WaiterPost(a)
  \/ \E w \in Workers : \E a \in Callers : makeThread(w, a)
  \/ \E w \in Workers : makeThreadReturn(w)
  \/ \E w \in Workers : WorkerStep(w)

NextT ==
  \/ CallStep
  \/ \E w \in Workers : makeThread(w, NoCaller)
  \/ \E w \in Workers : WorkerSpuriousWake(w)
  \/ \E w \in Workers : ThreadDtorStart(w)
  \/ \E w \in Workers : ThreadDtorSignal(w)
  \/ \E w \in Workers : ThreadDtorJoin(w)

\* worker threads that are made, called and destroyed
SpecT == Init /\ [][NextT]_vars

\* worker threads that are made and called, and not destroyed
NextCalls ==
  \/ CallStep
  \/ \E w \in Workers : makeThread(w, NoCaller)
  \/ \E w \in Workers : WorkerSpuriousWake(w)

\* Every thread that can take a step eventually takes it: the worker
\* threads, the loop thread that makes threads and delivers requests, and
\* a caller inside its chain of calls.
FairnessT ==
  /\ \A w \in Workers : WF_vars(WorkerStep(w))
  /\ \A w \in Workers : WF_vars(makeThreadReturn(w))
  /\ \A a \in Callers : WF_vars(\E w \in Workers : makeThread(w, a))
  /\ \A a \in Callers : WF_vars(ClientInvoke(a))
  /\ \A a \in Callers : WF_vars(WaiterPost(a))

FairSpecT == Init /\ [][NextCalls]_vars /\ FairnessT

\* worker threads that are made, called and destroyed, under the same
\* scheduling; destroying a Thread proxy is under no obligation
FairSpecW == Init /\ [][NextT]_vars /\ FairnessT

\* ------------------------------------------------------------ properties
\* an asynchronous action that the dispatcher has taken off the queue
AsyncBegun(a) == d_fn = a \/ async_runs[a] > 0

\* C1: when an asynchronous cleanup action of a Connection has begun, the
\* synchronous cleanup list of that Connection is empty and every action
\* that was registered on it has run.
C1_SyncBeforeAsync ==
  \A a \in CleanupIds :
    AsyncBegun(a) =>
      /\ m_sync_cleanup_fns[a[1]] = <<>>
      /\ \A k \in 1..sync_regs[a[1]] : sync_runs[<<a[1], k>>] = 1

\* an asynchronous action of the second Connection runs on the dispatcher
\* that already ran the first Connection's, after the synchronous action
C1_Witness ==
  /\ MaxConns >= 2
  /\ d_fn = <<2, 1>>
  /\ dpc = "run"
  /\ async_runs[<<1, 1>>] = 1
  /\ sync_runs[<<2, 1>>] = 1

\* C2: a function posted by a thread other than the loop thread is run at
\* most once per post call, only by the loop thread, and has been run
\* when post returns.
C2_PostedRunsOnce ==
  /\ ran_on \subseteq {LoopT}
  /\ \A p \in Posters :
       /\ ran[p] <= calls[p]
       /\ returns[p] <= ran[p]
       /\ ppc[p] = "idle" => ran[p] = calls[p]

\* every posting thread has returned from a post
C2_Witness == \A p \in Posters : returns[p] = 1 /\ ppc[p] = "idle"

\* C3: the loop never returns while a thread waits inside post with its
\* function installed in the slot.
C3_NoStrandedPoster ==
  \A p \in Posters : ~(lpc = "done" /\ ppc[p] = "wait" /\ m_post_fn = p)

\* C4: a function is installed only into an empty slot, the slot holds the
\* function the loop thread is executing until it has returned, and only
\* the loop thread, after the function returned, empties the slot.
C4_OneInFlight ==
  [][/\ (m_post_fn' # m_post_fn /\ m_post_fn' # nullptr) => m_post_fn = nullptr
     /\ (m_post_fn' # m_post_fn /\ m_post_fn' = nullptr) => lpc = "relock"
     /\ lpc' \in {"run_fn", "relock"} => (loop_fn' # nullptr /\ m_post_fn' = loop_fn')
    ]_vars

\* the loop thread executes one thread's function while another thread,
\* finding the slot occupied, waits
C4_Witness ==
  /\ lpc = "run_fn"
  /\ \E p \in Posters : p # loop_fn /\ ppc[p] = "acquire" /\ p \in cv_waiters

\* C5: a post call of the loop thread runs the function and returns in the
\* same step, leaving the slot, the wake channel, the mutex and the
\* condition variable alone.
C5_LoopThreadPost ==
  [][calls'[LoopT] # calls[LoopT] =>
       /\ ran'[LoopT] = ran[LoopT] + 1
       /\ returns'[LoopT] = returns[LoopT] + 1
       /\ ppc'[LoopT] = "idle"
       /\ UNCHANGED <<m_post_fn, pipe, lockVars, loopVars>>
    ]_vars

\* the loop thread has called post from inside a posted function that
\* still occupies the slot, and has returned from it
C5_Witness ==
  /\ lpc = "run_fn"
  /\ m_post_fn # nullptr
  /\ nested = 1
  /\ returns[LoopT] = 1

\* C6: the step in which loop() decides to leave is taken in a state with
\* no client and no deferred action.
C6_ExitOnlyWhenIdle ==
  [][(lpc = "check_fns" /\ lpc' = "close") =>
       (m_num_clients = 0 /\ m_async_fns = <<>>)]_vars

\* C7: while the dispatcher holds an action it took off the queue, loop()
\* has not returned and both descriptors are open.
C7_NoExitDuringAction ==
  d_fn # NoFn => (lpc # "done" /\ m_wait_fd # FdClosed /\ m_post_fd # FdClosed)

\* C8: an action that a finished ~Connection left in the deferred queue has
\* a dispatcher thread that will take it.
C8_QueuedActionIsServed ==
  \A a \in CleanupIds :
    (cstate[a[1]] = "destroyed" /\ \E i \in 1..Len(m_async_fns) : m_async_fns[i] = a)
      => dpc \notin {"none", "exited"}

\* a removeClient that leaves clients behind starts no write
QuietRemove ==
  (m_num_clients' = m_num_clients - 1 /\ m_num_clients' # 0) =>
    /\ pipe' = pipe
    /\ lpc' = "cd_write" => lpc = "cd_write"
    /\ dpc' = "write" => dpc = "write"

\* C9: if from some moment on the client count, brought to zero by a
\* removeClient, is zero and the deferred queue is empty, loop() returns;
\* and a removeClient that does not reach zero writes no wake byte.
C9_ZeroClientsEndLoop ==
  /\ (<>[](zeroed /\ m_num_clients = 0 /\ m_async_fns = <<>>)) => <>(lpc = "done")
  /\ [][QuietRemove]_vars

\* every Connection is gone, removeClient has brought the count to zero,
\* the wake bytes have been read and loop() has returned
C9_Witness ==
  /\ lpc = "done"
  /\ zeroed
  /\ m_num_clients = 0
  /\ \A c \in Conns : cstate[c] = "destroyed"
  /\ pipe = 0

\* the dispatcher thread is parked in m_cv.wait
DispWaiting == dpc = "acquire" /\ DispT \in cv_waiters

\* C10: a destructor entered while clients or deferred actions remained
\* neither returns successfully nor sits in join() behind a dispatcher
\* that waits for work.
C10_EarlyDestroyRejected ==
  e_early => (epc # "destroyed" /\ ~(epc = "join" /\ DispWaiting))

\* C11: when a worker thread made for no caller is destroyed, the
\* destructor does not sit in join() behind a worker thread that faulted,
\* and when join() has returned the thread function has returned and both
\* maps of the worker's ThreadContext are empty.
C11_DestroyJoinsWorker ==
  \A w \in Workers :
    thread_name[w] = NoCaller =>
      /\ tstate[w] = "join" => wpc[w] # "crashed"
      /\ tstate[w] = "joined" =>
           /\ wpc[w] = "exited"
           /\ request_threads[w] = {}
           /\ callback_threads[w] = {}

\* a call on a live client proxy of a destroyed Connection fails in the
\* same step and leaves the EventLoop and its Connections untouched
RefusedAtOnce ==
  \A s \in SyncIds :
    (Alive(s) /\ cstate[s[1]] = "destroyed" /\ ProxyCall(1, s)) =>
      (refused' # refused /\ UNCHANGED coreVars)

\* C12: every client proxy that is still alive when its Connection has
\* been destroyed has had its capability handle nulled by its synchronous
\* cleanup action, and a call on it fails at once: nothing is posted to
\* the event loop and the caller does not wait.
C12_DisconnectedProxyFails ==
  /\ [](\A s \in SyncIds :
         (Alive(s) /\ cstate[s[1]] = "destroyed") => Disconnected(s))
  /\ [][RefusedAtOnce]_vars

\* a call on a proxy of the destroyed first Connection has failed while
\* the second Connection is live and the loop is running
C12_Witness ==
  /\ \E s \in SyncIds : s[1] = 1 /\ Alive(s) /\ <<s, "destroyed">> \in refused
  /\ cstate[2] = "live"
  /\ lpc = "read"
  /\ ppc[1] = "idle"

\* the step in which an asynchronous cleanup action returns is a step of
\* the dispatcher thread, taken without the mutex; the loop thread stays
\* where it is
AsyncRunStep ==
  \A a \in CleanupIds :
    async_runs'[a] # async_runs[a] =>
      /\ dpc = "run"
      /\ d_fn = a
      /\ m_mutex # DispT
      /\ DispT # m_thread_id
      /\ UNCHANGED loopVars

\* C13: an asynchronous cleanup action is executed only by the dispatcher
\* thread, never by the loop thread, and the dispatcher does not hold the
\* EventLoop mutex from the moment the action starts until it returns.
C13_AsyncOffLoopUnlocked ==
  /\ [](dpc = "run" => (d_fn # NoFn /\ m_mutex # DispT))
  /\ [][AsyncRunStep]_vars

\* the dispatcher runs an action while the loop thread holds the mutex
C13_Witness ==
  /\ dpc = "run"
  /\ d_fn # NoFn
  /\ lpc = "locked"
  /\ m_mutex = LoopT

\* a post call has just been made while the dispatcher runs an action and
\* a Connection is live
PostDuringAction ==
  /\ dpc = "run"
  /\ ppc[1] = "acquire"
  /\ \E c \in Conns : cstate[c] = "live"

\* the post call has returned, its function run by the loop thread, and
\* the action is still running
PostDoneDuringAction ==
  /\ dpc = "run"
  /\ ppc[1] = "idle"
  /\ returns[1] = calls[1]
  /\ ran[1] = calls[1]
  /\ ran_on = {LoopT}

\* C14: while the dispatcher runs an asynchronous cleanup action, the
\* mutex is free for the addClient of a new Connection whenever the loop
\* thread is ready to set one up, and a post call made by another thread
\* returns, its function run by the loop thread, unless the action
\* returns first.
C14_SlowActionBlocksNobody ==
  /\ []((dpc = "run" /\ LoopIn({"read"})) => m_mutex = NoThread)
  /\ PostDuringAction ~> (PostDoneDuringAction \/ dpc # "run")

\* during the action of the first Connection the second one has been
\* created and a thread has just called post
C14_Witness ==
  /\ PostDuringAction
  /\ d_fn = <<1, 1>>
  /\ cstate[1] = "destroyed"
  /\ cstate[2] = "live"
  /\ m_num_clients = 2

\* the frames of worker w, innermost first, contain f
OnStack(w, f) == \E i \in 1..Len(w_stack[w]) : w_stack[w][i] = f

\* worker threads made for caller a
MadeFor(a) == {w \in Workers : tstate[w] # "none" /\ thread_name[w] = a}

\* C15: at most one worker thread is ever made for a caller; the nested
\* call N a caller makes from the callback of its call M is handed to and
\* run by the worker thread that is executing M; and a chain of calls
\* that has started comes to its end.
C15_NestedOnSameWorker ==
  /\ [](\A a \in Callers : Cardinality(MadeFor(a)) <= 1)
  /\ [](\A a \in Callers : \A w \in Workers :
          (m_fn[w] = <<a, "N">> \/ OnStack(w, <<a, "N">>)) =>
            (w = a_thread[a] /\ OnStack(w, <<a, "Mcb">>)))
  /\ \A a \in Callers : (apc[a] = "wait_M") ~> (apc[a] = "done")

\* the worker thread of caller 1 runs the nested call inside the wait of
\* the outer call's callback
C15_Witness ==
  /\ wpc[1] = "run"
  /\ w_stack[1] = <<<<1, "N">>, <<1, "cb">>, <<1, "Mcb">>>>
  /\ MadeFor(1) = {1}

\* threads inside EventLoop::loop
InLoop == {t \in Threads : loop_thread[t]}

\* C16: at most one thread at a time is inside loop() of the EventLoop; a
\* further call of loop(), from whatever thread, is stopped by the
\* assertion.
C16_SingleLoopEntry == Cardinality(InLoop) <= 1

\* C17: the shared state of the EventLoop and its Connections is read and
\* written under m_mutex only: nothing changes the client counter or the
\* deferred queue between the two reads of the exit check of loop(), and
\* the synchronous cleanup list is never changed while another thread
\* holds the mutex.
C17_SharedStateUnderMutex ==
  [][/\ lpc = "check_fns" =>
          /\ m_num_clients' = m_num_clients
          /\ m_async_fns' = m_async_fns
     /\ m_sync_cleanup_fns' # m_sync_cleanup_fns => m_mutex = NoThread]_vars

\* the destructor of Thread proxy w leaves the block under the Waiter's
\* mutex while the Waiter holds a function
DtorOnBusyWaiter(w) ==
  /\ tstate[w] = "dtor"
  /\ tstate'[w] # "dtor"
  /\ m_fn[w] # NoCall

\* C18: when a Thread proxy is destroyed while its Waiter holds a pending
\* function, the assertion fails: the worker is not notified, the maps are
\* not cleared, the thread is not joined, and nothing happens afterwards.
C18_BusyWaiterAsserts ==
  [][\A w \in Workers :
       /\ DtorOnBusyWaiter(w) =>
            /\ tstate'[w] = "assert_failed"
            /\ wpc' = wpc
            /\ request_threads' = request_threads
            /\ callback_threads' = callback_threads
       /\ (tstate[w] = "assert_failed" /\ m_fn[w] # NoCall) =>
            /\ tstate'[w] = "assert_failed"
            /\ wpc' = wpc]_vars

\* C18: a Thread proxy has been destroyed while a call was waiting in its
\* Waiter
C18_Witness ==
  \E w \in Workers :
    /\ tstate[w] = "assert_failed"
    /\ m_fn[w] # NoCall
    /\ wpc[w] \in {"parked", "enter", "recheck"}

\* a read of the wake channel returns without a byte
ZeroRead == read_bytes # 0 /\ read_bytes' = 0

\* C19: a read of the wake channel that does not deliver one byte ends
\* loop() with an exception at once: no posted function is run and no
\* waiter is notified for it, and the loop does nothing afterwards.
C19_ZeroReadIsFatal ==
  /\ [](read_bytes = 0 => lpc = "threw")
  /\ [][/\ ZeroRead =>
             /\ lpc' = "threw"
             /\ UNCHANGED <<m_post_fn, ran, loop_fn, cv_waiters, m_mutex>>
        /\ lpc = "threw" =>
             /\ lpc' = "threw"
             /\ UNCHANGED <<ran, loop_fn, read_bytes>>]_vars

\* C19: the read returned nothing while a posted function was in the slot,
\* and the function has not been run
C19_Witness ==
  /\ read_bytes = 0
  /\ lpc = "threw"
  /\ m_post_fn # nullptr
  /\ \A t \in Threads : ran[t] = 0

\* the cleanup actions of Connection c registered after number k whose
\* client proxy still exists
LaterAlive(c, k) == {s \in SyncIds : s[1] = c /\ s[2] > k /\ Alive(s)}

\* the synchronous cleanup action s is run in this step
SyncRunStep(s) == sync_runs'[s] # sync_runs[s]

\* C20: the destructor of a Connection runs each action left on the
\* synchronous cleanup list once, on the destroying thread and inside the
\* destructor, the one registered last first, and leaves the list empty.
C20_SyncDrainLifo ==
  /\ [](\A c \in Conns :
          cstate[c] = "destroyed" =>
            /\ m_sync_cleanup_fns[c] = <<>>
            /\ \A s \in SyncIds :
                 s[1] = c => sync_runs[s] = (IF Alive(s) THEN 1 ELSE 0))
  /\ [][\A s \in SyncIds :
          SyncRunStep(s) =>
            /\ sync_runs'[s] = 1
            /\ lpc = "cd" /\ lpc' = "cd"
            /\ cd_conn = s[1]
            /\ cstate[s[1]] = "destroying"
            /\ Alive(s)
            /\ \A l \in LaterAlive(s[1], s[2]) : sync_runs[l] = 1
            /\ \A u \in SyncIds \ {s} : sync_runs'[u] = sync_runs[u]]_vars

\* C20: a Connection with two registered actions has run the second and
\* not yet the first
C20_Witness ==
  \E c \in Conns :
    /\ cstate[c] = "destroying"
    /\ sync_runs[<<c, 2>>] = 1
    /\ sync_runs[<<c, 1>>] = 0
    /\ Alive(<<c, 1>>)

\* actions of one Connection stand in a list the one registered last first
LastFirst(fns) ==
  \A i, j \in 1..Len(fns) :
    (i < j /\ fns[i][1] = fns[j][1]) => fns[i][2] > fns[j][2]

\* ~Connection appends the front of its asynchronous list to the queue
QueueAppend ==
  /\ lpc = "cd"
  /\ m_async_cleanup_fns[cd_conn] # <<>>
  /\ m_async_fns' = Append(m_async_fns, Head(m_async_cleanup_fns[cd_conn]))
  /\ m_async_cleanup_fns'[cd_conn] = Tail(m_async_cleanup_fns[cd_conn])

\* the dispatcher takes the front of the queue while it runs no action
QueueTake ==
  /\ m_async_fns # <<>>
  /\ d_fn = NoFn
  /\ d_fn' = Head(m_async_fns)
  /\ m_async_fns' = Tail(m_async_fns)

\* C21: the asynchronous actions of a Connection go to the back of the
\* deferred queue in the order of its list, the one registered last first;
\* the dispatcher takes them from the front of the queue, one at a time, so
\* an action starts only when no other is running and those registered
\* after it on its Connection have run.
C21_AsyncOrder ==
  /\ [](/\ LastFirst(m_async_fns)
        /\ \A c \in Conns : LastFirst(m_async_cleanup_fns[c])
        /\ \A a \in AsyncIds : async_runs[a] <= 1)
  /\ [][/\ m_async_fns' # m_async_fns => (QueueAppend \/ QueueTake)
        /\ (d_fn' # d_fn /\ d_fn' # NoFn) =>
             /\ QueueTake
             /\ \A k \in (d_fn'[2] + 1)..async_regs[d_fn'[1]] :
                  async_runs[<<d_fn'[1], k>>] = 1]_vars

\* C21: the action a Connection registered first is running after the one
\* it registered second has run, while an action of another Connection
\* waits in the queue
C21_Witness ==
  \E c \in Conns :
    /\ d_fn = <<c, 1>>
    /\ dpc = "run"
    /\ async_runs[<<c, 2>>] = 1
    /\ \E i \in 1..Len(m_async_fns) : m_async_fns[i][1] # c

\* the Connection under destruction registered no cleanup action
CleanShutdown == sync_regs[cd_conn] = 0 /\ async_regs[cd_conn] = 0

\* ~Connection goes through startAsyncThread and removeClient
StartAsyncStep == lpc = "cd" /\ lpc' \in {"cd_write", "read"}

\* C22: an EventLoop creates at most one dispatcher thread, and only in a
\* startAsyncThread call that finds the deferred queue nonempty; the
\* destruction of a Connection without cleanup actions creates no thread
\* and takes one off the client count.
C22_OneDispatcherThread ==
  /\ [](threads_made <= 1)
  /\ [][/\ threads_made' # threads_made =>
             /\ StartAsyncStep
             /\ m_async_fns # <<>>
             /\ threads_made = 0
        /\ (StartAsyncStep /\ CleanShutdown) =>
             /\ threads_made' = threads_made
             /\ dpc' = dpc
             /\ m_async_fns' = m_async_fns
             /\ m_num_clients' = m_num_clients - 1]_vars

\* C22: two Connections have been destroyed, one with an asynchronous
\* action and one without any action, and one thread has been created
C22_Witness ==
  \E c, d \in Conns :
    /\ cstate[c] = "destroyed" /\ async_regs[c] > 0
    /\ cstate[d] = "destroyed" /\ async_regs[d] = 0 /\ sync_regs[d] = 0
    /\ threads_made = 1

\* the asynchronous action a waits in the deferred queue
Queued(a) == \E i \in 1..Len(m_async_fns) : m_async_fns[i] = a

\* the dispatcher thread exists and has not left its thread function
DispAlive == dpc \notin {"none", "exited"}

\* C23: the dispatcher leaves its thread function only from a pass, made
\* with the mutex held, that finds the deferred queue empty and the client
\* count zero; a pass that finds the queue empty and clients left waits on
\* the condition variable; an action that is in the queue while the
\* dispatcher is alive is taken by it.
C23_DispatcherExit ==
  /\ [](dpc = "top" => m_mutex = DispT)
  /\ [][/\ (dpc' = "exited" /\ dpc # "exited") =>
             /\ dpc = "top"
             /\ m_async_fns = <<>>
             /\ m_num_clients = 0
        /\ (dpc = "top" /\ dpc' # dpc /\ m_async_fns = <<>> /\ m_num_clients # 0) =>
             /\ dpc' = "acquire"
             /\ DispT \in cv_waiters'
             /\ m_mutex' = NoThread]_vars
  /\ \A a \in CleanupIds : (Queued(a) /\ DispAlive) ~> AsyncBegun(a)

\* C23: the dispatcher has run the action of the first Connection and has
\* left its thread function; the second Connection, which queued nothing,
\* is destroyed too
C23_Witness ==
  /\ dpc = "exited"
  /\ \A c \in Conns : cstate[c] = "destroyed"
  /\ async_runs[<<1, 1>>] = 1
  /\ async_regs[2] = 0

\* the loop thread is between the read of a wake byte and notify_all
Handling == lpc \in {"lock", "locked", "run_fn", "relock"}

\* a posted function taken from the slot returns
SlotFnReturns == \E p \in Posters : ran'[p] # ran[p]

\* C24: after the read of one wake byte the loop runs at most one posted
\* function, the one in the slot, with the mutex released; it clears the
\* slot only after that function has returned; and it calls notify_all
\* before the next read whether it ran a function or not.
C24_OneFunctionPerWake ==
  /\ [](lpc = "run_fn" =>
          /\ m_mutex # LoopT
          /\ loop_fn # nullptr
          /\ m_post_fn = loop_fn)
  /\ [][/\ (lpc' = "lock" /\ lpc # "lock") => (lpc = "read" /\ pipe' = pipe - 1)
        /\ (lpc' = "run_fn" /\ lpc # "run_fn") => lpc = "locked"
        /\ SlotFnReturns =>
             /\ lpc = "run_fn" /\ lpc' = "relock"
             /\ ran' = [ran EXCEPT ![loop_fn] = @ + 1]
        /\ (Handling /\ lpc' # lpc) => (Handling' \/ lpc' = "notify")
        /\ (lpc = "relock" /\ lpc' # lpc) => lpc' = "notify"
        /\ (m_post_fn # nullptr /\ m_post_fn' = nullptr) =>
             /\ lpc = "relock"
             /\ ran[m_post_fn] > returns[m_post_fn]
        /\ (lpc = "notify" /\ lpc' # lpc) => cv_waiters' = {}]_vars
  /\ Handling ~> (lpc = "notify")

\* C24: a wake byte has been read, no posted function has ever been run,
\* and the loop is about to notify a thread that waits on the condition
\* variable
C24_Witness ==
  /\ lpc = "notify"
  /\ read_bytes = 1
  /\ \A p \in Posters : ran[p] = 0
  /\ cv_waiters # {}

\* makeThread is called and starts worker w
MakeStep(w) == tstate[w] = "none" /\ tstate'[w] = "spawned"

\* the makeThread call that started worker w returns
ReturnStep(w) == tstate[w] = "spawned" /\ tstate'[w] # "spawned"

\* C25: every makeThread call starts a new native thread; it returns once
\* that thread has set its name and its Waiter and published its
\* ThreadContext, while the thread is still running; the Thread proxy it
\* returns wraps a ThreadContext with a Waiter and is a new entry of the
\* thread table.
C25_MakeThreadReturns ==
  /\ [][\A w \in Workers :
          /\ MakeStep(w) => (wpc[w] = "none" /\ wpc'[w] = "init")
          /\ ReturnStep(w) =>
               /\ tstate'[w] = "live"
               /\ ctx_waiter[w]
               /\ wpc[w] \in {"lock", "enter", "recheck", "parked", "run"}
               /\ w \notin m_threads
               /\ m_threads' = m_threads \cup {w}]_vars
  /\ \A w \in Workers : (tstate[w] = "spawned") ~> (tstate[w] = "live")

\* C25: every makeThread call has returned and is in the thread table, and
\* a worker has not yet gone past the publication of its ThreadContext
C25_Witness ==
  /\ m_threads = Workers
  /\ \E w \in Workers : tstate[w] = "live" /\ wpc[w] = "lock"

\* the native thread of worker w has ended
Terminated(w) == wpc[w] \in {"exited", "crashed"}

\* C26: the thread of a worker ends only after the destructor of its
\* Thread proxy has reset the Waiter pointer of its ThreadContext; the
\* destructor returns only when the thread function has returned; and a
\* Thread proxy joins its thread once.
C26_WorkerOutlivedByProxy ==
  /\ [](\A w \in Workers :
          /\ Terminated(w) => (~ctx_waiter[w] /\ tstate[w] \in {"join", "joined"})
          /\ tstate[w] = "joined" => wpc[w] = "exited")
  /\ [][\A w \in Workers :
          /\ (wpc'[w] = "exited" /\ wpc[w] # "exited") =>
               (wpc[w] \in {"enter", "recheck"} /\ tstate[w] = "join")
          /\ (tstate'[w] = "joined" /\ tstate[w] # "joined") =>
               (tstate[w] = "join" /\ wpc[w] = "exited")
          /\ tstate[w] = "joined" => tstate'[w] = "joined"]_vars

\* C26: a worker that was parked in its wait has been shut down and joined
\* while another goes on waiting for its Thread proxy
C26_Witness ==
  \E w, v \in Workers :
    /\ tstate[w] = "joined" /\ wpc[w] = "exited"
    /\ tstate[v] = "live" /\ wpc[v] = "parked"

\* loop() returns through the end of its body
LoopReturns == lpc = "close" /\ lpc' = "done"

\* C27: the descriptors of the wake channel are open until loop() has met
\* its exit condition; when loop() returns both are closed and recorded as
\* -1, the client count is zero and the deferred queue is empty, which is
\* what ~EventLoop asserts of them.
C27_ReturnMeetsDtorPreconditions ==
  /\ [](lpc \notin {"close", "done"} =>
          (m_wait_fd # FdClosed /\ m_post_fd # FdClosed))
  /\ [][LoopReturns =>
          /\ m_wait_fd # FdClosed /\ m_wait_fd' = FdClosed
          /\ m_post_fd # FdClosed /\ m_post_fd' = FdClosed
          /\ m_num_clients' = 0
          /\ m_async_fns' = <<>>]_vars

\* removeSyncCleanup is called for the action s
RemoveStep(s) == s \in removed' /\ s \notin removed

\* the action s stands in the synchronous list fns
Listed(fns, s) == \E i \in 1..Len(fns) : fns[i] = s

\* the list fns without the action s, the others in their order
Without(fns, s) == SelectSeq(fns, LAMBDA x : x # s)

\* C28: removeSyncCleanup takes out of the list the action its iterator
\* names and no other, and leaves the others in their order; the action
\* taken out is never run, and the destruction of the Connection runs each
\* of the others once, the one registered last first.
C28_RemoveExactlyOne ==
  /\ [](\A s \in removed :
          /\ sync_runs[s] = 0
          /\ ~Listed(m_sync_cleanup_fns[s[1]], s))
  /\ [](\A c \in Conns :
          cstate[c] = "destroyed" =>
            \A s \in SyncIds :
              (s[1] = c /\ s[2] <= sync_regs[c] /\ s \notin removed) =>
                sync_runs[s] = 1)
  /\ [][\A s \in SyncIds :
          /\ RemoveStep(s) =>
               /\ Listed(m_sync_cleanup_fns[s[1]], s)
               /\ m_sync_cleanup_fns' =
                    [m_sync_cleanup_fns EXCEPT ![s[1]] = Without(@, s)]
               /\ Len(m_sync_cleanup_fns'[s[1]]) = Len(m_sync_cleanup_fns[s[1]]) - 1
               /\ sync_runs' = sync_runs
          /\ (SyncRunStep(s) /\ removed # {}) =>
               /\ s \notin removed
               /\ sync_runs'[s] = 1
               /\ \A l \in LaterAlive(s[1], s[2]) : sync_runs[l] = 1]_vars

\* C28: of three actions registered on a Connection the second has been
\* removed; the destructor has run the third and not yet the first
C28_Witness ==
  \E c \in Conns :
    /\ cstate[c] = "destroying"
    /\ <<c, 2>> \in removed
    /\ sync_runs[<<c, 3>>] = 1
    /\ sync_runs[<<c, 2>>] = 0
    /\ sync_runs[<<c, 1>>] = 0
    /\ m_sync_cleanup_fns[c] = <<<<c, 1>>>>

\* the Connections that count as a client of the EventLoop: from their
\* construction to the removeClient of their destructor
Counted == {c \in Conns : cstate[c] = "live" \/ (cstate[c] = "destroying" /\ lpc # "cd_write")}

\* the dispatcher is between its addClient and its removeClient
DispCounts == IF d_fn # NoFn THEN 1 ELSE 0

\* a removeClient is about to be called: by ~Connection, by the
\* dispatcher or by RemoveClient
RemoveDue ==
  \/ lpc = "cd"
  \/ dpc = "relock"
  \/ x_held > 0

\* C29: the client count is the number of Connections, of actions in the
\* dispatcher and of AddClient calls that have not yet been matched by
\* their removeClient: it is never negative, it is positive whenever a
\* removeClient is due, and an action of the dispatcher adds one for as
\* long as it runs and nothing afterwards.
C29_ClientCount ==
  /\ m_num_clients = Cardinality(Counted) + DispCounts + x_held
  /\ m_num_clients >= 0
  /\ RemoveDue => ClientsLeft(m_num_clients)

\* C29: a Connection, an action of the dispatcher and an AddClient are
\* counted at once
C29_Witness ==
  /\ m_num_clients = 3
  /\ Cardinality(Counted) = 1
  /\ dpc = "relock"
  /\ x_held = 1

\* worker w evaluates g_thread_context.waiter: to lock the mutex of the
\* Waiter or to call its wait
WaiterUse(w) == wpc[w] \in {"lock", "enter"} /\ wpc'[w] # wpc[w]

\* C30: whenever a worker thread evaluates g_thread_context.waiter, to
\* lock the mutex of the Waiter or to start waiting, the pointer is not
\* null.
C30_WaiterNonNullAtUse ==
  [][\A w \in Workers : WaiterUse(w) => ctx_waiter[w]]_vars

\* a thread executes write(m_post_fd, &buffer, 1): in post, in the
\* removeClient of ~Connection or of RemoveClient, or in the removeClient
\* of the dispatcher
WakeWrite ==
  \/ \E p \in Posters : ppc[p] = "write" /\ ppc'[p] # "write"
  \/ lpc = "cd_write" /\ lpc' # "cd_write"
  \/ xpc = "write" /\ xpc' # "write"
  \/ dpc = "write" /\ dpc' # "write"

\* C31: every write to the wake channel, by post, by a removeClient that
\* reaches zero and by the removeClient of the dispatcher, is executed
\* while loop() has not yet closed m_post_fd.
C31_NoWriteAfterClose ==
  [][WakeWrite => m_post_fd # FdClosed]_vars

\* the write of thread p inside post has failed and the exception of
\* KJ_SYSCALL has left post
PostFailed(p) == ppc[p] = "threw"

\* C32: once the write inside post has failed and post has been left with
\* the error, the slot m_post_fn is empty: it does not point to the
\* function of the thread that left, a later post finds the slot free, and
\* KJ_ASSERT(m_post_fn == nullptr) of the destructor holds.
C32_FailedPostClearsSlot ==
  \A p \in Posters : PostFailed(p) => SlotFree(m_post_fn)

====
